---- MODULE Spec2Model ----
(***************************************************************************)
(* Model of flex_eav/eav_validator.py: the validator protocol              *)
(* (ValidatorBase), the process-wide ValidatorRegistry and the five        *)
(* built-in validators.                                                    *)
(*                                                                         *)
(* Python values are tagged records; a str is a sequence of one-character  *)
(* strings so that split / strip / lower / float() can be computed.        *)
(***************************************************************************)
EXTENDS Integers, Sequences, FiniteSets, TLC

\* ------------------------------------------------------------------ bounds
\* longest raw value enumerated over each validator's alphabet
MaxLen == 2
\* number of register() calls made after the module has been loaded
MaxRegs == 2

\* ------------------------------------------------------------ Python values
NoneV == [t |-> "None"]
StrV(s) == [t |-> "str", s |-> s]
IntV(i) == [t |-> "int", i |-> i]
FloatV(n, d) == [t |-> "float", num |-> n, den |-> d]
ListV(xs) == [t |-> "list", items |-> xs]
TupleV(xs) == [t |-> "tuple", items |-> xs]
DictV(min, max) == [t |-> "dict", min_value |-> min, max_value |-> max]
BoolV(b) == [t |-> "bool", b |-> b]
\* marker for a key that is absent from a mapping
Absent == [t |-> "absent"]

SeqToSet(s) == {s[i] : i \in 1..Len(s)}

Strings(alphabet, n) == UNION {[1..k -> alphabet] : k \in 0..n}

\* ------------------------------------------------------------ str methods
UpperToLower == [c \in {"A", "B", "C", "D", "E", "F", "G", "H", "I", "J", "K", "L", "M", "N", "O", "P", "Q", "R", "S", "T", "U", "V", "W", "X", "Y", "Z"} |->
    CASE c = "A" -> "a" [] c = "B" -> "b" [] c = "C" -> "c" [] c = "D" -> "d"
      [] c = "E" -> "e" [] c = "F" -> "f" [] c = "G" -> "g" [] c = "H" -> "h"
      [] c = "I" -> "i" [] c = "J" -> "j" [] c = "K" -> "k" [] c = "L" -> "l"
      [] c = "M" -> "m" [] c = "N" -> "n" [] c = "O" -> "o" [] c = "P" -> "p"
      [] c = "Q" -> "q" [] c = "R" -> "r" [] c = "S" -> "s" [] c = "T" -> "t"
      [] c = "U" -> "u" [] c = "V" -> "v" [] c = "W" -> "w" [] c = "X" -> "x"
      [] c = "Y" -> "y" [] c = "Z" -> "z"]

LowerChar(c) == IF c \in DOMAIN UpperToLower THEN UpperToLower[c] ELSE c

\* str.lower
lower(s) == [i \in 1..Len(s) |-> LowerChar(s[i])]

Whitespace == {" "}

RECURSIVE lstrip(_)
lstrip(s) == IF s # <<>> /\ Head(s) \in Whitespace THEN lstrip(Tail(s)) ELSE s

RECURSIVE rstrip(_)
rstrip(s) ==
    IF s # <<>> /\ s[Len(s)] \in Whitespace THEN rstrip(SubSeq(s, 1, Len(s) - 1)) ELSE s

\* str.strip
strip(s) == rstrip(lstrip(s))

\* str.split(sep) for a one-character separator: always at least one piece
RECURSIVE split(_, _)
split(s, sep) ==
    IF \A i \in 1..Len(s) : s[i] # sep
    THEN <<s>>
    ELSE LET i == CHOOSE j \in 1..Len(s) : s[j] = sep /\ \A k \in 1..(j - 1) : s[k] # sep
         IN  <<SubSeq(s, 1, i - 1)>> \o split(SubSeq(s, i + 1, Len(s)), sep)

Digits == {"0", "1", "2", "3", "4", "5", "6", "7", "8", "9"}

DigitVal(c) ==
    CASE c = "0" -> 0 [] c = "1" -> 1 [] c = "2" -> 2 [] c = "3" -> 3 [] c = "4" -> 4
      [] c = "5" -> 5 [] c = "6" -> 6 [] c = "7" -> 7 [] c = "8" -> 8 [] c = "9" -> 9

DigitChar(d) ==
    CASE d = 0 -> "0" [] d = 1 -> "1" [] d = 2 -> "2" [] d = 3 -> "3" [] d = 4 -> "4"
      [] d = 5 -> "5" [] d = 6 -> "6" [] d = 7 -> "7" [] d = 8 -> "8" [] d = 9 -> "9"

\* str.isdigit
isdigit(s) == s # <<>> /\ \A i \in 1..Len(s) : s[i] \in Digits

RECURSIVE DigitsToNat(_)
DigitsToNat(s) ==
    IF s = <<>> THEN 0 ELSE 10 * DigitsToNat(SubSeq(s, 1, Len(s) - 1)) + DigitVal(s[Len(s)])

RECURSIVE NatToDigits(_)
NatToDigits(n) ==
    IF n < 10 THEN <<DigitChar(n)>> ELSE NatToDigits(n \div 10) \o <<DigitChar(n % 10)>>

RECURSIVE Pow10(_)
Pow10(k) == IF k = 0 THEN 1 ELSE 10 * Pow10(k - 1)

\* ------------------------------------------------------------------ floats
\* a float is num/den with den a power of ten; den = 0 encodes inf (num = 1),
\* -inf (num = -1) and nan (num = 0)
NaN == FloatV(0, 0)
Inf(sign) == FloatV(sign, 0)

RECURSIVE Reduce(_, _)
Reduce(n, d) == IF d > 1 /\ n % 10 = 0 THEN Reduce(n \div 10, d \div 10) ELSE FloatV(n, d)

\* float(str) on the strings the model enumerates: surrounding whitespace is
\* ignored, an optional sign, then either inf / infinity / nan in any case or
\* decimal digits with at most one point and at least one digit; any other
\* string over those alphabets is a ValueError (exponents and digit
\* separators are not among the enumerated characters)
float(s) ==
    LET t == strip(s)
        signed == t # <<>> /\ Head(t) \in {"+", "-"}
        sign == IF signed /\ Head(t) = "-" THEN -1 ELSE 1
        body == IF signed THEN Tail(t) ELSE t
        low == lower(body)
        points == {i \in 1..Len(body) : body[i] = "."}
        p == IF points = {} THEN Len(body) + 1 ELSE CHOOSE i \in points : TRUE
        whole == SubSeq(body, 1, p - 1)
        frac == SubSeq(body, p + 1, Len(body))
        wellFormed == /\ Cardinality(points) <= 1
                      /\ \A i \in 1..Len(body) : body[i] \in Digits \cup {"."}
                      /\ Len(whole) + Len(frac) >= 1
    IN  IF low \in {<<"i", "n", "f">>, <<"i", "n", "f", "i", "n", "i", "t", "y">>}
        THEN [ok |-> TRUE, val |-> Inf(sign)]
        ELSE IF low = <<"n", "a", "n">>
        THEN [ok |-> TRUE, val |-> NaN]
        ELSE IF wellFormed
        THEN [ok |-> TRUE,
              val |-> Reduce(sign * (DigitsToNat(whole) * Pow10(Len(frac)) + DigitsToNat(frac)),
                             Pow10(Len(frac)))]
        ELSE [ok |-> FALSE, val |-> NoneV]

IsNumber(v) == v.t \in {"int", "float"}

Num(v) == IF v.t = "int" THEN v.i ELSE v.num

Den(v) == IF v.t = "int" THEN 1 ELSE v.den

IsNaN(v) == v.t = "float" /\ v.den = 0 /\ v.num = 0

\* a <= b on int / float operands
NumLe(a, b) == ~IsNaN(a) /\ ~IsNaN(b) /\ Num(a) * Den(b) <= Num(b) * Den(a)

\* float.is_integer
is_integer(f) == f.den = 1

\* str(x) of an int, a float or a str
str(v) ==
    CASE v.t = "str" -> v.s
      [] v.t = "int" -> IF v.i < 0 THEN <<"-">> \o NatToDigits(-v.i) ELSE NatToDigits(v.i)
      [] v.t = "float" ->
            LET a == IF v.num < 0 THEN -v.num ELSE v.num
                d == IF v.den = 0 THEN 1 ELSE v.den
                fr == NatToDigits(a % d)
                pad == [i \in 1..(Len(NatToDigits(d)) - 1 - Len(fr)) |-> "0"]
            IN  (IF v.num < 0 THEN <<"-">> ELSE <<>>) \o NatToDigits(a \div d) \o <<".">>
                    \o (IF d = 1 THEN <<"0">> ELSE pad \o fr)
      [] OTHER -> <<"?">>

\* ------------------------------------------------- validator classes
\* A class object is referred to by its name; "None" is Python's None.
NoneRef == "None"

\* the classes the module defines under @register, in definition order
Builtins == <<"RegexValidator", "RangeValidator", "ChoiceValidator", "BooleanValidator", "MultipleChoiceValidator">>

BuiltinNames == SeqToSet(Builtins)

\* classes an application registers after the module has been loaded
CustomNames == {"CustomRegexValidator", "ColorValidator", "ColourValidator"}

ClassNames == BuiltinNames \cup CustomNames

\* the class attribute slug
Slug(c) ==
    CASE c = "RegexValidator" -> "regex"
      [] c = "RangeValidator" -> "range"
      [] c = "ChoiceValidator" -> "choice"
      [] c = "BooleanValidator" -> "boolean"
      [] c = "MultipleChoiceValidator" -> "multiple_choice"
      [] c = "CustomRegexValidator" -> "regex"
      [] c = "ColorValidator" -> "color"
      [] c = "ColourValidator" -> "color"

\* the class attribute title
Title(c) ==
    CASE c = "RegexValidator" -> "Regex"
      [] c = "RangeValidator" -> "Range"
      [] c = "ChoiceValidator" -> "Choice"
      [] c = "BooleanValidator" -> "Boolean"
      [] c = "MultipleChoiceValidator" -> "Multiple Choice"
      [] c = "CustomRegexValidator" -> "Custom Regex"
      [] c = "ColorValidator" -> "Color"
      [] c = "ColourValidator" -> "Colour"

\* the class attribute _kwargs_slug: the key __init__ and validate_kwargs read
\* (ChoiceValidator reads the literal "choices"; BooleanValidator has none)
KwargsKey(c) ==
    CASE c = "RegexValidator" -> "pattern"
      [] c = "RangeValidator" -> "range"
      [] c = "ChoiceValidator" -> "choices"
      [] c = "MultipleChoiceValidator" -> "choices"
      [] OTHER -> NoneRef

Slugs == {Slug(c) : c \in ClassNames} \cup {"nonexistent"}

\* ---------------------------------------------------------------- dict
\* A dict is the sequence of its items in insertion order.
DictKeys(d) == {d[i].key : i \in 1..Len(d)}

\* d.get(k)
DictGet(d, k) ==
    IF k \in DictKeys(d) THEN d[CHOOSE i \in 1..Len(d) : d[i].key = k].val ELSE NoneRef

\* d[k] = v: an existing key keeps its position and takes the new value, a new
\* key is appended
DictSet(d, k, v) ==
    IF k \in DictKeys(d)
    THEN [i \in 1..Len(d) |-> IF d[i].key = k THEN [key |-> k, val |-> v] ELSE d[i]]
    ELSE Append(d, [key |-> k, val |-> v])

\* ------------------------------------------------------------ registry
\* register as a plausible slip (validators.setdefault): a slug that is
\* present keeps the validator registered first
RegisterKeepFirst(vs, validator) ==
    IF Slug(validator) \in DictKeys(vs)
    THEN vs
    ELSE Append(vs, [key |-> Slug(validator), val |-> validator])

\* register as a plausible slip (pop, then insert): a slug that is present
\* moves to the end of the mapping
RegisterMoveToEnd(vs, validator) ==
    SelectSeq(vs, LAMBDA e : e.key # Slug(validator))
        \o <<[key |-> Slug(validator), val |-> validator]>>

\* ValidatorRegistry.register: the class attribute validators after the call
register(vs, validator) == DictSet(vs, Slug(validator), validator)

\* ValidatorRegistry.register: the value the call returns (the body has no
\* return statement)
RegisterReturn(validator) == NoneRef

\* ValidatorRegistry.get_validator
get_validator(vs, slug) == DictGet(vs, slug)

\* ValidatorRegistry.get_choices
get_choices(vs) == [i \in 1..Len(vs) |-> <<vs[i].key, Title(vs[i].val)>>]

\* ------------------------------------------------------- exceptions
NoExc == [exc |-> "none", msg |-> ""]

Raise(kind, message) == [exc |-> kind, msg |-> message]

\* the exception types contextlib.suppress is given in initialize_from_kwargs;
\* django's ValidationError derives from Exception, not from any of them
Suppressed == {"KeyError", "AttributeError", "ValueError"}

\* ------------------------------------------------------------ kwargs
\* **kwargs is a record of the keys a caller may pass, Absent when not passed
KwargKeys == {"pattern", "range", "choices", "extra"}

\* kwargs.get(key)
KwGet(kw, key) == IF kw[key] = Absent THEN NoneV ELSE kw[key]

\* kwargs.get(key, default)
KwGetDefault(kw, key, default) == IF kw[key] = Absent THEN default ELSE kw[key]

\* truth value of a Python object
Truthy(v) ==
    CASE v.t = "None" -> FALSE
      [] v.t = "str" -> v.s # <<>>
      [] v.t = "int" -> v.i # 0
      [] v.t = "float" -> v.num # 0 \/ v.den = 0
      [] v.t \in {"list", "tuple"} -> v.items # <<>>
      [] v.t = "bool" -> v.b
      [] OTHER -> TRUE

\* _range.get(key) on the object found under "range": a dict answers, any
\* other object has no attribute get
RangeGet(rng, key) ==
    IF rng.t = "dict"
    THEN [exc |-> NoExc, val |-> IF rng[key] = Absent THEN NoneV ELSE rng[key]]
    ELSE [exc |-> Raise("AttributeError", "no attribute get"), val |-> NoneV]

EmptyDict == DictV(Absent, Absent)

\* the bound method object str(x).isdigit, which line 112 passes to all()
\* without calling it: a method object is always true
IsdigitMethodTruth(x) == TRUE

\* ----------------------------------------------------- validate_kwargs
RegexValidateKwargs(kw) ==
    LET pattern == KwGet(kw, KwargsKey("RegexValidator"))
    IN  IF ~(Truthy(pattern) /\ pattern.t = "str")
        THEN Raise("ValidationError", "Pattern is required")
        ELSE NoExc

RangeValidateKwargs(kw) ==
    LET rng == KwGetDefault(kw, KwargsKey("RangeValidator"), EmptyDict)
        mn == RangeGet(rng, "min_value")
        mx == RangeGet(rng, "max_value")
    IN  IF mn.exc # NoExc THEN mn.exc
        ELSE IF mx.exc # NoExc THEN mx.exc
        ELSE IF ~(\A v \in {mn.val, mx.val} : v # NoneV)
        THEN Raise("ValidationError", "min_value and max_value are required")
        ELSE IF ~(\A v \in {mn.val, mx.val} : IsdigitMethodTruth(v))
        THEN Raise("ValidationError", "min_value and max_value must be number")
        ELSE NoExc

ChoicesValidateKwargs(kw, key) ==
    LET choices == KwGet(kw, key)
    IN  IF ~Truthy(choices)
        THEN Raise("ValidationError", "Choices are required")
        ELSE IF choices.t # "list"
        THEN Raise("ValidationError", "Choices must be a list")
        ELSE NoExc

\* cls.validate_kwargs(cls, **kwargs)
validate_kwargs(cls, kw) ==
    CASE cls = "RegexValidator" -> RegexValidateKwargs(kw)
      [] cls = "RangeValidator" -> RangeValidateKwargs(kw)
      [] cls = "ChoiceValidator" -> ChoicesValidateKwargs(kw, "choices")
      [] cls = "MultipleChoiceValidator" ->
            ChoicesValidateKwargs(kw, KwargsKey("MultipleChoiceValidator"))
      [] OTHER -> NoExc

\* -------------------------------------------------------------- __init__
Instance(cls, pattern, min, max, choices) ==
    [cls |-> cls, pattern |-> pattern, min_value |-> min, max_value |-> max, choices |-> choices]

NoInst == Instance(NoneRef, NoneV, NoneV, NoneV, NoneV)

Passed(kw) == {k \in KwargKeys : kw[k] # Absent}

\* cls(**kwargs): the exception __init__ raises, or the instance
construct(cls, kw) ==
    CASE cls = "RegexValidator" ->
            [exc |-> NoExc,
             inst |-> Instance(cls, KwGet(kw, KwargsKey(cls)), NoneV, NoneV, NoneV)]
      [] cls = "RangeValidator" ->
            LET rng == KwGetDefault(kw, KwargsKey(cls), EmptyDict)
                mn == RangeGet(rng, "min_value")
                mx == RangeGet(rng, "max_value")
            IN  IF mn.exc # NoExc THEN [exc |-> mn.exc, inst |-> NoInst]
                ELSE IF mx.exc # NoExc THEN [exc |-> mx.exc, inst |-> NoInst]
                ELSE [exc |-> NoExc, inst |-> Instance(cls, NoneV, mn.val, mx.val, NoneV)]
      [] cls = "ChoiceValidator" ->
            \* def __init__(self, choices): exactly the keyword choices
            IF Passed(kw) # {"choices"}
            THEN [exc |-> Raise("TypeError", "__init__() arguments"), inst |-> NoInst]
            ELSE [exc |-> NoExc, inst |-> Instance(cls, NoneV, NoneV, NoneV, kw["choices"])]
      [] cls = "MultipleChoiceValidator" ->
            [exc |-> NoExc,
             inst |-> Instance(cls, NoneV, NoneV, NoneV,
                               KwGetDefault(kw, KwargsKey(cls), ListV(<<>>)))]
      [] OTHER ->
            \* BooleanValidator inherits ValidatorBase.__init__(self, **validator_kwargs)
            [exc |-> NoExc, inst |-> Instance(cls, NoneV, NoneV, NoneV, NoneV)]

\* set(signature(cls.__init__).parameters)
get_instance_kwargs(cls) ==
    CASE cls = "ChoiceValidator" -> {"self", "choices"}
      [] cls = "BooleanValidator" -> {"self", "validator_kwargs"}
      [] OTHER -> {"self", "kwargs"}

\* the ValueError of line 25
InvalidKwargs(cls) ==
    [exc |-> "ValueError", msg |-> "Invalid kwargs", params |-> get_instance_kwargs(cls)]

Propagated(e) == [exc |-> e.exc, msg |-> e.msg, params |-> {}]

Returned == [exc |-> "none", msg |-> "", params |-> {}]

\* cls.initialize_from_kwargs(**kwargs): what the call raises (Returned when
\* it returns) and the instance it returns
initialize_from_kwargs(cls, kw) ==
    LET vk == validate_kwargs(cls, kw)
        made == construct(cls, kw)
    IN  IF vk.exc \in Suppressed THEN [out |-> InvalidKwargs(cls), inst |-> NoInst]
        ELSE IF vk # NoExc THEN [out |-> Propagated(vk), inst |-> NoInst]
        ELSE IF made.exc.exc \in Suppressed THEN [out |-> InvalidKwargs(cls), inst |-> NoInst]
        ELSE IF made.exc # NoExc THEN [out |-> Propagated(made.exc), inst |-> NoInst]
        ELSE [out |-> Returned, inst |-> made.inst]

\* ValidatorBase.get_kwargs_slug, overridden by ChoiceValidator alone
get_kwargs_slug(cls) ==
    IF cls = "ChoiceValidator" THEN KwargsKey(cls) ELSE Slug(cls)

\* ------------------------------------------------------------ re.match
\* The regular expressions modelled: literals, "." (any character), "^",
\* "$" and groups "(" ")"; a pattern with unbalanced parentheses does not
\* compile (re.error).
RECURSIVE Balanced(_, _)
Balanced(p, depth) ==
    IF p = <<>> THEN depth = 0
    ELSE IF Head(p) = "(" THEN Balanced(Tail(p), depth + 1)
    ELSE IF Head(p) = ")" THEN depth > 0 /\ Balanced(Tail(p), depth - 1)
    ELSE Balanced(Tail(p), depth)

\* whether pattern p matches s from offset pos on; nothing is required of
\* what follows the match
RECURSIVE MatchAt(_, _, _)
MatchAt(p, s, pos) ==
    IF p = <<>> THEN TRUE
    ELSE IF Head(p) = "^" THEN pos = 0 /\ MatchAt(Tail(p), s, pos)
    ELSE IF Head(p) = "$" THEN pos = Len(s) /\ MatchAt(Tail(p), s, pos)
    ELSE IF Head(p) \in {"(", ")"} THEN MatchAt(Tail(p), s, pos)
    ELSE IF Head(p) = "." THEN pos < Len(s) /\ MatchAt(Tail(p), s, pos + 1)
    ELSE pos < Len(s) /\ s[pos + 1] = Head(p) /\ MatchAt(Tail(p), s, pos + 1)

\* re.match(pattern, value): a match anchored at the start of value only
ReMatch(p, s) ==
    IF ~Balanced(p, 0) THEN [exc |-> Raise("re.error", "bad pattern"), matched |-> FALSE]
    ELSE [exc |-> NoExc, matched |-> MatchAt(p, s, 0)]

\* ------------------------------------------------------------- validate
\* RegexValidator.validate
RegexValidate(self, value) ==
    LET m == ReMatch(self.pattern.s, value)
    IN  IF m.exc # NoExc THEN m.exc
        ELSE IF ~m.matched THEN Raise("ValidationError", "Value does not match regex")
        ELSE NoExc

\* a <= b as a plausible slip: a < b
PyLt(a, b) ==
    IF IsNumber(a) /\ IsNumber(b)
    THEN [exc |-> NoExc, val |-> NumLe(a, b) /\ ~NumLe(b, a)]
    ELSE [exc |-> Raise("TypeError", "'<=' not supported"), val |-> FALSE]

\* a <= b as Python evaluates it: a str operand against a float is a TypeError
PyLe(a, b) ==
    IF IsNumber(a) /\ IsNumber(b)
    THEN [exc |-> NoExc, val |-> NumLe(a, b)]
    ELSE [exc |-> Raise("TypeError", "'<=' not supported"), val |-> FALSE]

\* RangeValidator.validate: float(value) is evaluated first, then the chained
\* comparison min_value <= v <= max_value, left to right with short circuit;
\* only ValueError is caught
RangeValidate(self, value) ==
    LET f == float(value)
        lo == PyLe(self.min_value, f.val)
        hi == PyLe(f.val, self.max_value)
    IN  IF ~f.ok THEN Raise("ValidationError", "Value must be an number")
        ELSE IF lo.exc # NoExc THEN lo.exc
        ELSE IF ~lo.val THEN Raise("ValidationError", "Value is not in range")
        ELSE IF hi.exc # NoExc THEN hi.exc
        ELSE IF ~hi.val THEN Raise("ValidationError", "Value is not in range")
        ELSE NoExc

\* v in map(str.lower, choices): the map is consumed item by item until v is
\* found; str.lower of an item that is no str is a TypeError
RECURSIVE InLowered(_, _)
InLowered(v, items) ==
    IF items = <<>> THEN [exc |-> NoExc, found |-> FALSE]
    ELSE IF Head(items).t # "str"
    THEN [exc |-> Raise("TypeError", "descriptor 'lower' requires a 'str' object"), found |-> FALSE]
    ELSE IF lower(Head(items).s) = v THEN [exc |-> NoExc, found |-> TRUE]
    ELSE InLowered(v, Tail(items))

\* ChoiceValidator.validate
ChoiceValidate(self, value) ==
    LET r == InLowered(lower(value), self.choices.items)
    IN  IF r.exc # NoExc THEN r.exc
        ELSE IF ~r.found THEN Raise("ValidationError", "Value is not in choices")
        ELSE NoExc

\* BooleanValidator.validate
BooleanValidate(self, value) ==
    IF lower(value) \notin {<<"t", "r", "u", "e">>, <<"f", "a", "l", "s", "e">>}
    THEN Raise("ValidationError", "Value must be 'true' or 'false'.")
    ELSE NoExc

\* an iterator is the sequence of the items it has still to yield;
\* list(it) and set(it) take them all and leave the iterator exhausted
Exhaust(it) == [taken |-> it, rest |-> <<>>]

\* all(v in map(str.lower, choices) for v in it): the first v that is not
\* found, or a TypeError, stops the loop
RECURSIVE AllInLowered(_, _)
AllInLowered(it, items) ==
    IF it = <<>> THEN [exc |-> NoExc, all |-> TRUE]
    ELSE LET r == InLowered(Head(it), items)
         IN  IF r.exc # NoExc THEN [exc |-> r.exc, all |-> FALSE]
             ELSE IF ~r.found THEN [exc |-> NoExc, all |-> FALSE]
             ELSE AllInLowered(Tail(it), items)

\* the tokens of a multiple-choice value: split on commas, stripped, lowered
Tokens(value) ==
    LET parts == split(value, ",")
    IN  [i \in 1..Len(parts) |-> lower(strip(parts[i]))]

\* MultipleChoiceValidator.validate: selected_values is one map iterator,
\* shared by list(), set() and the generator of line 188
MultipleChoiceValidate(self, value) ==
    LET selected_values == Tokens(value)
        asList == Exhaust(selected_values)
        asSet == Exhaust(asList.rest)
        memb == AllInLowered(asSet.rest, self.choices.items)
    IN  IF Len(asList.taken) # Cardinality(SeqToSet(asSet.taken))
        THEN Raise("ValidationError", "Duplicate choices are not allowed")
        ELSE IF memb.exc # NoExc THEN memb.exc
        ELSE IF ~memb.all THEN Raise("ValidationError", "Invalid choices")
        ELSE NoExc

\* self.validate(value): the exception raised, NoExc when the call returns
validate(self, value) ==
    CASE self.cls = "RegexValidator" -> RegexValidate(self, value)
      [] self.cls = "RangeValidator" -> RangeValidate(self, value)
      [] self.cls = "ChoiceValidator" -> ChoiceValidate(self, value)
      [] self.cls = "BooleanValidator" -> BooleanValidate(self, value)
      [] self.cls = "MultipleChoiceValidator" -> MultipleChoiceValidate(self, value)

\* ------------------------------------------------------------- to_value
\* RangeValidator.to_value
RangeToValue(value) ==
    LET f == float(value)
    IN  IF ~f.ok THEN [exc |-> Raise("ValueError", "could not convert string to float"), val |-> NoneV]
        ELSE IF is_integer(f.val) THEN [exc |-> NoExc, val |-> IntV(f.val.num)]
        ELSE [exc |-> NoExc, val |-> f.val]

\* self.to_value(value); the classes that do not override it inherit
\* ValidatorBase.to_value, which returns value
to_value(self, value) ==
    CASE self.cls = "RangeValidator" -> RangeToValue(value)
      [] self.cls = "BooleanValidator" ->
            [exc |-> NoExc, val |-> BoolV(lower(value) = <<"t", "r", "u", "e">>)]
      [] OTHER -> [exc |-> NoExc, val |-> StrV(value)]

\* validate as a plausible slip: the call normalises self.choices in place
\* (self.choices = list(map(str.lower, self.choices)))
SelfAfterCallLowersChoices(self, value) ==
    IF self.choices.t = "list"
    THEN [self EXCEPT !.choices = ListV([i \in 1..Len(self.choices.items) |->
              IF self.choices.items[i].t = "str"
              THEN StrV(lower(self.choices.items[i].s))
              ELSE self.choices.items[i]])]
    ELSE self

\* what a call leaves of the instance it is made on: validate and to_value
\* assign no attribute
SelfAfterCall(self, value) == self

\* --------------------------------------------------------------- inputs
S_a == <<"a">>
S_b == <<"b">>
S_c == <<"c">>
S_Red == <<"R", "e", "d">>
S_Blue == <<"B", "l", "u", "e">>

PatternValues ==
    {StrV(<<"^", "a">>), StrV(<<"a">>), StrV(<<"a", "$">>), StrV(<<"(">>), StrV(<<>>), IntV(5)}

\* the objects a caller may pass under "range": dicts with int, negative,
\* fractional, str or missing bounds, and an object that is no dict
RangeValues ==
    {DictV(IntV(1), IntV(5)), DictV(IntV(-1), IntV(5)), DictV(FloatV(15, 10), IntV(5)),
     DictV(IntV(5), IntV(1)), DictV(IntV(1), StrV(<<"5">>)), DictV(StrV(<<"1">>), IntV(5)),
     DictV(IntV(1), StrV(<<"x">>)), DictV(Absent, IntV(5)), DictV(IntV(1), Absent),
     DictV(Absent, Absent), ListV(<<IntV(1), IntV(5)>>)}

ChoicesValues ==
    {ListV(<<StrV(S_a), StrV(S_b), StrV(S_c)>>), ListV(<<StrV(S_Red), StrV(S_Blue)>>),
     ListV(<<StrV(S_a), IntV(1)>>), ListV(<<>>), TupleV(<<StrV(S_a), StrV(S_b)>>)}

Kwargs(pattern, rng, choices, extra) ==
    [pattern |-> pattern, range |-> rng, choices |-> choices, extra |-> extra]

\* the keyword mappings passed to initialize_from_kwargs
KwargsInputs ==
    {Kwargs(Absent, Absent, Absent, Absent)}
        \cup {Kwargs(v, Absent, Absent, Absent) : v \in PatternValues}
        \cup {Kwargs(Absent, v, Absent, Absent) : v \in RangeValues}
        \cup {Kwargs(Absent, Absent, v, Absent) : v \in ChoicesValues}
        \cup {Kwargs(Absent, Absent, ListV(<<StrV(S_a), StrV(S_b), StrV(S_c)>>), IntV(1))}

RawAlphabet(cls) ==
    CASE cls = "RegexValidator" -> {"a", "b"}
      [] cls = "RangeValidator" -> {"3", "6", ".", "-"}
      [] cls = "ChoiceValidator" -> {"a", "B", "z"}
      [] cls = "BooleanValidator" -> {"t", "T"}
      [] cls = "MultipleChoiceValidator" -> {"a", "B", ",", " "}

\* the raw values the specification names, beside the enumerated ones
RawExamples(cls) ==
    CASE cls = "RegexValidator" -> {<<"a", "b", "c">>, <<"b", "c", "d">>}
      [] cls = "RangeValidator" ->
            {<<"3", ".", "5">>, <<"5">>, <<"1">>, <<"x">>, <<" ", "3">>, <<"n", "a", "n">>,
             <<"i", "n", "f">>}
      [] cls = "ChoiceValidator" -> {<<"r", "e", "d">>, <<"g", "r", "e", "e", "n">>}
      [] cls = "BooleanValidator" ->
            {<<"T", "R", "U", "E">>, <<"t", "r", "u", "e">>, <<"f", "a", "l", "s", "e">>,
             <<"m", "a", "y", "b", "e">>}
      [] cls = "MultipleChoiceValidator" ->
            {<<"a", ",", " ", "B">>, <<"a", ",", "a">>, <<"a", ",", "z">>, <<"a", ",", "b">>}

Raws(cls) == Strings(RawAlphabet(cls), MaxLen) \cup RawExamples(cls)

\* ---------------------------------------------------------------- state
VARIABLES validators, namespace, regLog, call, made, inst, raw, validated, value
\* validators : ValidatorRegistry.validators
\* namespace  : what each built-in class name is bound to in the module
\* regLog     : the validators passed to register so far, in call order
\* call       : the last class-level read and what it returned
\* made       : the last initialize_from_kwargs call and what it raised
\* inst       : the instance that call returned
\* raw        : the raw value inst was last called with
\* validated  : what inst.validate(raw) raised
\* value      : what inst.to_value(raw) raised or returned

vars == <<validators, namespace, regLog, call, made, inst, raw, validated, value>>

regVars == <<validators, namespace, regLog, call>>

instVars == <<made, inst, raw, validated, value>>

Unbound == "<unbound>"

NoCall == [op |-> "none", arg |-> NoneRef, ret |-> <<>>]

NoMade == [cls |-> NoneRef, kw |-> Kwargs(Absent, Absent, Absent, Absent), out |-> Returned]

NotCalled == [exc |-> "not called", msg |-> ""]

NoValue == [exc |-> NotCalled, val |-> NoneV]

\* the module starts to load: the registry is the empty class attribute of
\* line 57 and no decorated class has been defined yet
Init ==
    /\ validators = <<>>
    /\ namespace = [c \in BuiltinNames |-> Unbound]
    /\ regLog = <<>>
    /\ call = NoCall
    /\ made = NoMade
    /\ inst = NoInst
    /\ raw = NoneV
    /\ validated = NotCalled
    /\ value = NoValue

\* the module is loaded: every decorated class definition has executed
Loaded == Len(regLog) >= Len(Builtins)

\* @register class X(ValidatorBase): ...   (the next class definition of the
\* module executes: X = register(X))
LoadBuiltin ==
    /\ ~Loaded
    /\ LET c == Builtins[Len(regLog) + 1]
       IN  /\ validators' = register(validators, c)
           /\ namespace' = [namespace EXCEPT ![c] = RegisterReturn(c)]
           /\ regLog' = Append(regLog, c)
    /\ UNCHANGED <<call, instVars>>

\* register(validator) called by an application after load
Register ==
    /\ Loaded
    /\ Len(regLog) < Len(Builtins) + MaxRegs
    /\ \E c \in ClassNames :
          /\ validators' = register(validators, c)
          /\ regLog' = Append(regLog, c)
    /\ UNCHANGED <<namespace, call, instVars>>

\* ValidatorRegistry.get_validator(slug)
GetValidator ==
    /\ Loaded
    /\ \E s \in Slugs :
          call' = [op |-> "get_validator", arg |-> s, ret |-> <<get_validator(validators, s)>>]
    /\ UNCHANGED <<validators, namespace, regLog, instVars>>

\* ValidatorRegistry.get_choices()
GetChoices ==
    /\ Loaded
    /\ call' = [op |-> "get_choices", arg |-> NoneRef, ret |-> get_choices(validators)]
    /\ UNCHANGED <<validators, namespace, regLog, instVars>>

\* get_validator(slug).get_kwargs_slug() on a built-in class
GetKwargsSlug ==
    /\ Loaded
    /\ \E s \in Slugs :
          LET cls == get_validator(validators, s)
          IN  /\ cls \in BuiltinNames
              /\ call' = [op |-> "get_kwargs_slug", arg |-> cls, ret |-> <<get_kwargs_slug(cls)>>]
    /\ UNCHANGED <<validators, namespace, regLog, instVars>>

\* get_validator(slug).initialize_from_kwargs(**kw) on a built-in class
InitializeFromKwargs ==
    /\ Loaded
    /\ \E s \in Slugs, kw \in KwargsInputs :
          LET cls == get_validator(validators, s)
          IN  /\ cls \in BuiltinNames
              /\ LET r == initialize_from_kwargs(cls, kw)
                 IN  /\ made' = [cls |-> cls, kw |-> kw, out |-> r.out]
                     /\ inst' = r.inst
    /\ raw' = NoneV
    /\ validated' = NotCalled
    /\ value' = NoValue
    /\ UNCHANGED regVars

\* inst.validate(r)
Validate ==
    /\ inst # NoInst
    /\ \E r \in Raws(inst.cls) :
          /\ raw' = StrV(r)
          /\ validated' = validate(inst, r)
          /\ value' = IF raw = StrV(r) THEN value ELSE NoValue
          /\ inst' = SelfAfterCall(inst, r)
    /\ UNCHANGED <<made, regVars>>

\* inst.to_value(r)
ToValue ==
    /\ inst # NoInst
    /\ \E r \in Raws(inst.cls) :
          /\ raw' = StrV(r)
          /\ value' = to_value(inst, r)
          /\ validated' = IF raw = StrV(r) THEN validated ELSE NotCalled
          /\ inst' = SelfAfterCall(inst, r)
    /\ UNCHANGED <<made, regVars>>

NextRegistry == LoadBuiltin \/ Register \/ GetValidator \/ GetChoices \/ GetKwargsSlug

NextValidators == LoadBuiltin \/ InitializeFromKwargs \/ Validate \/ ToValue

\* the registry and the class-level reads
SpecRegistry == Init /\ [][NextRegistry]_vars

\* one validator instance at a time, from construction through its calls
SpecValidators == Init /\ [][NextValidators]_vars

\* ---------------------------------------------------------------- claims
\* the validator most recently passed to register with slug s, None if none
LastRegistered(s) ==
    LET idx == {i \in 1..Len(regLog) : Slug(regLog[i]) = s}
    IN  IF idx = {} THEN NoneRef ELSE regLog[CHOOSE i \in idx : \A j \in idx : j <= i]

\* the slugs passed to register, each once, in the order of its first registration
RECURSIVE FirstRegistrations(_)
FirstRegistrations(log) ==
    IF log = <<>> THEN <<>>
    ELSE LET before == FirstRegistrations(SubSeq(log, 1, Len(log) - 1))
             s == Slug(log[Len(log)])
         IN  IF s \in SeqToSet(before) THEN before ELSE Append(before, s)

Distinct(seq) == \A i, j \in 1..Len(seq) : i # j => seq[i] # seq[j]

StrList(v) == v.t = "list" /\ v.items # <<>> /\ \A i \in 1..Len(v.items) : v.items[i].t = "str"

LoweredChoices(v) == {lower(v.items[i].s) : i \in 1..Len(v.items)}

\* C1: for a MultipleChoice instance built with a non-empty list of string
\* choices, validate(raw) succeeds exactly when the comma-separated, stripped,
\* lowercased tokens of raw are pairwise distinct and each is one of the
\* lowercased choices, and it fails with a ValidationError otherwise.
C1_MultipleChoiceValidate ==
    (inst.cls = "MultipleChoiceValidator" /\ StrList(inst.choices) /\ validated # NotCalled)
        => LET toks == Tokens(raw.s)
               good == Distinct(toks) /\ SeqToSet(toks) \subseteq LoweredChoices(inst.choices)
           IN  /\ good <=> validated = NoExc
               /\ ~good => validated.exc = "ValidationError"

\* C2: initialize_from_kwargs of Regex, Range, Choice or MultipleChoice called
\* without the class's configuration key raises the ValueError of
\* initialize_from_kwargs itself, whose message lists the constructor's
\* parameter names; no other error kind reaches the caller.
C2_MissingConfigIsInvalidKwargs ==
    (made.cls # NoneRef /\ KwargsKey(made.cls) # NoneRef /\ made.kw[KwargsKey(made.cls)] = Absent)
        => made.out = InvalidKwargs(made.cls)

\* C3: in every state get_validator(s) is the validator most recently passed
\* to register with slug s, whose slug is s, and None when no validator with
\* slug s was ever registered; a registry read leaves the registry unchanged.
C3_GetValidatorLastRegistered ==
    /\ [](\A s \in Slugs :
            /\ get_validator(validators, s) = LastRegistered(s)
            /\ get_validator(validators, s) # NoneRef => Slug(get_validator(validators, s)) = s
            /\ (\A i \in 1..Len(regLog) : Slug(regLog[i]) # s)
                  => get_validator(validators, s) = NoneRef)
    /\ [][call' # call => validators' = validators]_vars

C3_Witness ==
    /\ call = [op |-> "get_validator", arg |-> "regex", ret |-> <<"CustomRegexValidator">>]
    /\ \E i \in 1..Len(regLog) : regLog[i] = "RegexValidator"
    /\ get_validator(validators, "nonexistent") = NoneRef

\* C4: register returns the class it was given, so that after a decorated
\* class definition the class's name is bound to that class, the object
\* get_validator returns for its slug.
C4_RegisterReturnsClass ==
    \A c \in BuiltinNames :
        namespace[c] # Unbound => namespace[c] = c /\ namespace[c] \in {validators[i].val : i \in 1..Len(validators)}

\* C5: a Range configuration is accepted by initialize_from_kwargs only when
\* both bounds look like digit strings; a negative, fractional or non-numeric
\* bound is rejected.
C5_RangeBoundsDigitLooking ==
    (made.cls = "RangeValidator" /\ made.out = Returned)
        => isdigit(str(inst.min_value)) /\ isdigit(str(inst.max_value))

\* C6: for a built-in class that reads configuration, get_kwargs_slug()
\* returns the key its validate_kwargs and constructor read ("pattern" for
\* Regex, "range" for Range, "choices" for Choice and MultipleChoice); for
\* Boolean it returns the slug.
C6_KwargsSlugIsConfigKey ==
    call.op = "get_kwargs_slug"
        => call.ret = <<IF KwargsKey(call.arg) # NoneRef THEN KwargsKey(call.arg) ELSE Slug(call.arg)>>

\* C7: get_choices() lists one (slug, title) pair per registered slug, with
\* the title of the validator last registered under the slug, the slugs in
\* the order in which each was first registered (registering a present slug
\* again replaces the title in place).
C7_ChoicesInRegistrationOrder ==
    LET order == FirstRegistrations(regLog)
    IN  /\ get_choices(validators) = [i \in 1..Len(order) |-> <<order[i], Title(LastRegistered(order[i]))>>]
        /\ call.op = "get_choices" => Distinct([i \in 1..Len(call.ret) |-> call.ret[i][1]])

C7_Witness ==
    /\ call.op = "get_choices"
    /\ call.ret = get_choices(validators)
    /\ call.ret[1] = <<"regex", "Custom Regex">>
    /\ Len(call.ret) = Len(Builtins) + 1

\* a Range instance whose bounds are numbers with min_value <= max_value
NumericRange(self) ==
    /\ self.cls = "RangeValidator"
    /\ IsNumber(self.min_value) /\ IsNumber(self.max_value)
    /\ NumLe(self.min_value, self.max_value)

\* C8: for a Range instance with numeric bounds min_value <= max_value,
\* validate(raw) succeeds exactly when raw parses as a number v with
\* min_value <= v <= max_value; a parsed value outside the bounds raises the
\* "not in range" ValidationError and a raw value that does not parse raises
\* the "must be an number" ValidationError.
C8_RangeValidate ==
    (NumericRange(inst) /\ validated # NotCalled)
        => LET f == float(raw.s)
           IN  validated =
                 IF ~f.ok THEN Raise("ValidationError", "Value must be an number")
                 ELSE IF NumLe(inst.min_value, f.val) /\ NumLe(f.val, inst.max_value) THEN NoExc
                 ELSE Raise("ValidationError", "Value is not in range")

C8_Witness ==
    /\ inst = Instance("RangeValidator", NoneV, IntV(1), IntV(5), NoneV)
    /\ raw = StrV(<<"3", ".", "5">>)
    /\ validated = NoExc
    /\ value = [exc |-> NoExc, val |-> FloatV(35, 10)]

C10_ValidateRaisesOnlyValidationError ==
    validated.exc \in {"not called", "none", "ValidationError"}

====
